---- MODULE Spec2Model ----
(***************************************************************************)
(* brsp: a render farm.  `serve` runs a worker service (src/main.rs        *)
(* main/Command::Serve, handle_client, worker_brpy) in front of one        *)
(* rendering backend; `render` runs the client dispatcher (main/           *)
(* Command::Render, render) that drains a shared frame pool through one    *)
(* thread per service.                                                     *)
(*                                                                         *)
(* A connection c is a pair of message queues c2s[c] / s2c[c]; a framed    *)
(* JSON message is a record [type, id, frame, data].  Threads are          *)
(* positions (pc values named after the blocking call they stand at).      *)
(***************************************************************************)
EXTENDS Integers, Sequences, FiniteSets, TLC

\* ---------------------------------------------------------------- bounds
NumClients == 2      \* connections of arbitrary clients to the one service (Spec)
MaxSends == 2        \* messages an arbitrary client writes on its connection
MaxInFlight == 1     \* unread messages an arbitrary client leaves in its socket
NumThreads == 2      \* dispatcher threads = addresses in <ips> (SpecRender)
NumServices == 2     \* distinct services the addresses name (SpecRender)
MaxFrame == 2        \* frame numbers are 1..MaxFrame
MaxListLen == 3      \* length of the parsed, unsorted frame list

VARIABLES
    \* one worker service (Command::Serve)
    mainpc,          \* main thread: "query_write", "query_read", "accept"
    info,            \* cached QueryResponse (NoInfo before it is fetched)
    queries,         \* number of BrpyRequest::Query written to the backend
    toBrpy,          \* backend stream, service -> backend
    fromBrpy,        \* backend stream, backend -> service
    render_requesters, \* Vec<Option<TcpStream>>: 0 is None, c is Some(stream of c)
    mutex,           \* lock of render_requesters: "free", "worker", "poisoned"
    wpc,             \* worker_brpy position
    slot,            \* worker_brpy local `slot` (0-based, as in the code)
    frame_request,   \* worker_brpy local `frame_request`
    response,        \* worker_brpy local `response` (header + image)
    dirs,            \* anonymous/<hash> directories that exist
    blend,           \* anonymous/<hash>/<hash>.blend contents (NoFile if absent)
    \* connections
    ip,              \* the service a connection goes to
    cstate,          \* client end: "idle", "open", "closed"
    c2s,             \* bytes client -> service, as a queue of framed messages
    s2c,             \* bytes service -> client
    hpc,             \* handle_client position
    request,         \* handle_client local `request` (with `blend`) while it is saved
    served,          \* requests handle_client has answered on the connection
    nsent,           \* messages an arbitrary client has written
    \* the client dispatcher (Command::Render)
    tpc,             \* render() position of the thread on connection c
    frame,           \* render() local `frame`
    frames,          \* the shared pool, Mutex<Vec<usize>>
    frames_lock,     \* the pool's mutex: Unlocked, the thread that holds it, Poisoned
    parsed,          \* history: the set of frames of the parsed list
    popped,          \* history: frames popped so far, in pop order
    writes,          \* history: how often the image file of a frame was written
    \* main of Command::Render before the threads are spawned
    cmdpc,           \* "parse", "spawn", "panic_parse"
    descriptor,      \* the <frames> argument, a string of characters
    given,           \* history: the singletons and ranges the argument was written from
    \* one frame on a stream (to_header, read_header)
    fpc,             \* "write", "read", "done", "panic_len", "read_err"
    content,         \* the payload handed to to_header
    trailing,        \* the bytes written to the stream after the frame
    stream,          \* the bytes on the stream, not yet read
    header,          \* what read_header returned
    \* history of worker_brpy
    accepted         \* the Accepts written, in order: to whom, and who was registered

srvVars == <<mainpc, info, queries, toBrpy, fromBrpy, render_requesters, mutex,
             wpc, slot, frame_request, response, dirs, blend>>
connVars == <<ip, cstate, c2s, s2c, hpc, request, served, nsent>>
poolVars == <<tpc, frame, frames, frames_lock, parsed, popped, writes>>
cmdVars == <<cmdpc, descriptor, given>>
frameVars == <<fpc, content, trailing, stream, header>>
vars == <<srvVars, connVars, poolVars, cmdVars, frameVars, accepted>>

Services == DOMAIN mainpc
Conns == DOMAIN hpc

\* ------------------------------------------------------------- messages
None == 0
NoInfo ==
    [version |-> <<0, 0, 0>>, compute_device_type |-> "",
     devices |-> [active |-> <<>>, inactive |-> <<>>]]
\* no such file; a file that is there is the sequence of its bytes
NoFile == <<-1>>
NoFrame == 0
NoMsg == [type |-> "none", id |-> 0, frame |-> 0, data |-> 0]

Msg(t, i, f, d) == [type |-> t, id |-> i, frame |-> f, data |-> d]

\* enum Request, serde tag "type"
ReqUpload(i, b) == Msg("upload", i, 0, b)
ReqRender == Msg("render", 0, 0, 0)
ReqQuery == Msg("query", 0, 0, 0)
ReqDelete == Msg("delete", 0, 0, 0)
\* struct FrameRequest
FrameReq(i, f) == Msg("framereq", i, f, 0)
\* a frame whose payload is not JSON of any type of the protocol
Garbage == Msg("garbage", 0, 0, 0)
\* enum Response
RespOkay == Msg("okay", 0, 0, 0)
RespFail == Msg("fail", 0, 0, "Could not save file")
\* enum RenderAcceptResponse
Accept == Msg("accept", 0, 0, 0)
\* enum RenderResponse::Okay{size, extension} followed by the image bytes
RenderOkay(img) == Msg("renderokay", 0, 0, img)

\* serde_json::from_slice::<Request>: the tagged variants only
ParsesAsRequest(m) == m.type \in {"upload", "render", "query", "delete"}
\* serde_json::from_slice::<FrameRequest>: needs the fields id and frame
ParsesAsFrameRequest(m) == m.type = "framereq"
\* serde_json::from_slice::<RenderAcceptResponse>
ParsesAsAccept(m) == m.type = "accept"

\* DefaultHasher over the id; the fingerprint names the scene directory
Hash(i) == 100 + i

\* what the backend answers to BrpyRequest::Query
BrpyInfo(s) ==
    [version |-> <<4, 2, s>>, compute_device_type |-> "OPTIX",
     devices |-> [active |-> <<"GPU0">>, inactive |-> <<"CPU">>]]

\* the image the backend renders for a scene file and a frame
Image(h, f, b) == [scene |-> h, frame |-> f, of |-> b, extension |-> "png"]

\* --------------------------------------------------- the service: startup
\* main, lines 244-247: write BrpyRequest::Query to the backend
MainQueryWrite(s) ==
    /\ mainpc[s] = "query_write"
    /\ toBrpy' = [toBrpy EXCEPT ![s] = Append(@, Msg("query", 0, 0, 0))]
    /\ queries' = [queries EXCEPT ![s] = @ + 1]
    /\ mainpc' = [mainpc EXCEPT ![s] = "query_read"]
    /\ UNCHANGED <<info, fromBrpy, render_requesters, mutex, wpc, slot,
                   frame_request, response, dirs, blend>>
    /\ UNCHANGED <<connVars, poolVars, cmdVars, frameVars, accepted>>

\* main, lines 248-257: read the answer into `info`, then start worker_brpy
\* and the accept loop
MainQueryRead(s) ==
    /\ mainpc[s] = "query_read"
    /\ fromBrpy[s] # <<>>
    /\ info' = [info EXCEPT ![s] = Head(fromBrpy[s]).data]
    /\ fromBrpy' = [fromBrpy EXCEPT ![s] = Tail(@)]
    /\ mainpc' = [mainpc EXCEPT ![s] = "accept"]
    /\ wpc' = [wpc EXCEPT ![s] = "start"]
    /\ UNCHANGED <<queries, toBrpy, render_requesters, mutex, slot,
                   frame_request, response, dirs, blend>>
    /\ UNCHANGED <<connVars, poolVars, cmdVars, frameVars, accepted>>

\* main, lines 264-270: accept a connection and spawn handle_client on it
AcceptConn(c) ==
    /\ mainpc[ip[c]] = "accept"
    /\ cstate[c] # "idle"
    /\ hpc[c] = "none"
    /\ hpc' = [hpc EXCEPT ![c] = "read"]
    /\ UNCHANGED <<ip, cstate, c2s, s2c, request, served, nsent>>
    /\ UNCHANGED <<srvVars, poolVars, cmdVars, frameVars, accepted>>

\* ------------------------------------------------------------ the backend
\* the backend answers the capability query
BrpyQuery(s) ==
    /\ toBrpy[s] # <<>>
    /\ Head(toBrpy[s]).type = "query"
    /\ toBrpy' = [toBrpy EXCEPT ![s] = Tail(@)]
    /\ fromBrpy' = [fromBrpy EXCEPT ![s] = Append(@, Msg("info", 0, 0, BrpyInfo(s)))]
    /\ UNCHANGED <<mainpc, info, queries, render_requesters, mutex, wpc, slot,
                   frame_request, response, dirs, blend>>
    /\ UNCHANGED <<connVars, poolVars, cmdVars, frameVars, accepted>>

\* the backend renders the frame and answers BrpyRenderResponse::Okay{image}
BrpyRenderOkay(s) ==
    /\ toBrpy[s] # <<>>
    /\ Head(toBrpy[s]).type = "render"
    /\ toBrpy' = [toBrpy EXCEPT ![s] = Tail(@)]
    /\ LET r == Head(toBrpy[s])
       IN  fromBrpy' = [fromBrpy EXCEPT ![s] =
               Append(@, Msg("okay", 0, 0, Image(r.id, r.frame, blend[s][r.id])))]
    /\ UNCHANGED <<mainpc, info, queries, render_requesters, mutex, wpc, slot,
                   frame_request, response, dirs, blend>>
    /\ UNCHANGED <<connVars, poolVars, cmdVars, frameVars, accepted>>

\* the backend answers BrpyRenderResponse::Fail
BrpyRenderFail(s) ==
    /\ toBrpy[s] # <<>>
    /\ Head(toBrpy[s]).type = "render"
    /\ toBrpy' = [toBrpy EXCEPT ![s] = Tail(@)]
    /\ fromBrpy' = [fromBrpy EXCEPT ![s] = Append(@, Msg("fail", 0, 0, 0))]
    /\ UNCHANGED <<mainpc, info, queries, render_requesters, mutex, wpc, slot,
                   frame_request, response, dirs, blend>>
    /\ UNCHANGED <<connVars, poolVars, cmdVars, frameVars, accepted>>

\* ---------------------------------------------------------- handle_client
\* the outcomes of write_all on the stream of c: it can fail only once the
\* peer has closed
WriteResults(c) == IF cstate[c] = "closed" THEN {TRUE, FALSE} ELSE {TRUE}

\* the bytes reach the client unless it has closed
Deliver(c, m) == IF cstate[c] = "open" THEN Append(s2c[c], m) ELSE s2c[c]

\* a reply that leaves the device lists out
QueryReplyNoDevices(i) ==
    Msg("info", 0, 0,
        [version |-> i.version, compute_device_type |-> i.compute_device_type,
         devices |-> [active |-> <<>>, inactive |-> <<>>]])

\* lines 349-356: the reply to Request::Query, built field by field from info
QueryReply(i) ==
    Msg("info", 0, 0,
        [version |-> i.version, compute_device_type |-> i.compute_device_type,
         devices |-> i.devices])

\* line 288: read_header fails (the client closed): unwrap panics
HandleReadError(c) ==
    /\ hpc[c] = "read"
    /\ c2s[c] = <<>>
    /\ cstate[c] = "closed"
    /\ hpc' = [hpc EXCEPT ![c] = "panic_read"]
    /\ UNCHANGED <<ip, cstate, c2s, s2c, request, served, nsent>>
    /\ UNCHANGED <<srvVars, poolVars, cmdVars, frameVars, accepted>>

\* line 288: the frame is not a Request: from_slice(..).unwrap() panics
HandleMalformed(c) ==
    /\ hpc[c] = "read"
    /\ c2s[c] # <<>>
    /\ ~ParsesAsRequest(Head(c2s[c]))
    /\ c2s' = [c2s EXCEPT ![c] = Tail(@)]
    /\ hpc' = [hpc EXCEPT ![c] = "panic_parse"]
    /\ UNCHANGED <<ip, cstate, s2c, request, served, nsent>>
    /\ UNCHANGED <<srvVars, poolVars, cmdVars, frameVars, accepted>>

\* lines 345-347: Request::Delete is todo!()
HandleDelete(c) ==
    /\ hpc[c] = "read"
    /\ c2s[c] # <<>>
    /\ Head(c2s[c]).type = "delete"
    /\ c2s' = [c2s EXCEPT ![c] = Tail(@)]
    /\ hpc' = [hpc EXCEPT ![c] = "panic_todo"]
    /\ UNCHANGED <<ip, cstate, s2c, request, served, nsent>>
    /\ UNCHANGED <<srvVars, poolVars, cmdVars, frameVars, accepted>>

\* the reply that says Okay whatever became of the file
UploadAnswerOkay(saved) == RespOkay

\* lines 300-306: the reply to an upload, by the result of fs::write
UploadAnswer(saved) == IF saved THEN RespOkay ELSE RespFail

\* lines 308-312: write the reply (unwrap panics if that fails), then break:
\* handle_client returns and the stream is dropped
UploadReply(c, saved) ==
    \E ok \in WriteResults(c) :
        IF ok
        THEN /\ s2c' = [s2c EXCEPT ![c] = Deliver(c, UploadAnswer(saved))]
             /\ hpc' = [hpc EXCEPT ![c] = "done"]
             /\ served' = [served EXCEPT ![c] = @ + 1]
        ELSE /\ hpc' = [hpc EXCEPT ![c] = "panic_write"]
             /\ UNCHANGED <<s2c, served>>

\* a file after `n` bytes of `bytes` were written at its start: what lies
\* beyond them stays
Overwrite(file, bytes, n) ==
    [k \in 1..(IF Len(file) > n THEN Len(file) ELSE n) |->
        IF k <= n THEN bytes[k] ELSE file[k]]

\* lines 291-300: Request::Upload with its blob is read, the directory is
\* made (the result ignored) and fs::write opens the file: File::create
\* truncates it, or fails, and then the reply is Fail
HandleUpload(c, opened) ==
    /\ hpc[c] = "read"
    /\ c2s[c] # <<>>
    /\ Head(c2s[c]).type = "upload"
    /\ LET m == Head(c2s[c])
           s == ip[c]
           h == Hash(m.id)
       IN  /\ c2s' = [c2s EXCEPT ![c] = Tail(@)]
           /\ IF opened
              THEN /\ dirs' = [dirs EXCEPT ![s] = @ \cup {h}]
                   /\ blend' = [blend EXCEPT ![s][h] = <<>>]
                   /\ request' = [request EXCEPT ![c] = m]
                   /\ hpc' = [hpc EXCEPT ![c] = "write_file"]
                   /\ UNCHANGED <<s2c, served>>
              ELSE /\ \E made \in BOOLEAN :
                          dirs' = [dirs EXCEPT ![s] = IF made THEN @ \cup {h} ELSE @]
                   /\ UNCHANGED <<blend, request>>
                   /\ UploadReply(c, FALSE)
    /\ UNCHANGED <<ip, cstate, nsent>>
    /\ UNCHANGED <<mainpc, info, queries, toBrpy, fromBrpy, render_requesters,
                   mutex, wpc, slot, frame_request, response>>
    /\ UNCHANGED <<poolVars, cmdVars, frameVars, accepted>>

\* lines 300-313: fs::write writes the blob from the start of the file it
\* opened; it fails after any `n` bytes short of all, then the reply is Fail
UploadWrite(c, n) ==
    /\ hpc[c] = "write_file"
    /\ LET m == request[c]
           s == ip[c]
           h == Hash(m.id)
       IN  /\ n \in 0..Len(m.data)
           /\ blend' = [blend EXCEPT ![s][h] = Overwrite(@, m.data, n)]
           /\ UploadReply(c, n = Len(m.data))
    /\ request' = [request EXCEPT ![c] = NoMsg]
    /\ UNCHANGED <<ip, cstate, c2s, nsent>>
    /\ UNCHANGED <<mainpc, info, queries, toBrpy, fromBrpy, render_requesters,
                   mutex, wpc, slot, frame_request, response, dirs>>
    /\ UNCHANGED <<poolVars, cmdVars, frameVars, accepted>>

\* Request::Query answered under the lock of render_requesters
HandleQueryLocked(c) ==
    /\ hpc[c] = "read"
    /\ c2s[c] # <<>>
    /\ Head(c2s[c]).type = "query"
    /\ mutex[ip[c]] = "free"
    /\ c2s' = [c2s EXCEPT ![c] = Tail(@)]
    /\ \E ok \in WriteResults(c) :
         IF ok
         THEN /\ s2c' = [s2c EXCEPT ![c] = Deliver(c, QueryReply(info[ip[c]]))]
              /\ served' = [served EXCEPT ![c] = @ + 1]
              /\ UNCHANGED hpc
         ELSE /\ hpc' = [hpc EXCEPT ![c] = "panic_write"]
              /\ UNCHANGED <<s2c, served>>
    /\ UNCHANGED <<ip, cstate, request, nsent>>
    /\ UNCHANGED <<srvVars, poolVars, cmdVars, frameVars, accepted>>

\* lines 348-359: Request::Query; the loop goes on
HandleQuery(c) ==
    /\ hpc[c] = "read"
    /\ c2s[c] # <<>>
    /\ Head(c2s[c]).type = "query"
    /\ c2s' = [c2s EXCEPT ![c] = Tail(@)]
    /\ \E ok \in WriteResults(c) :
         IF ok
         THEN /\ s2c' = [s2c EXCEPT ![c] = Deliver(c, QueryReply(info[ip[c]]))]
              /\ served' = [served EXCEPT ![c] = @ + 1]
              /\ UNCHANGED hpc
         ELSE /\ hpc' = [hpc EXCEPT ![c] = "panic_write"]
              /\ UNCHANGED <<s2c, served>>
    /\ UNCHANGED <<ip, cstate, request, nsent>>
    /\ UNCHANGED <<srvVars, poolVars, cmdVars, frameVars, accepted>>

\* lines 314-318: Request::Render; the handler goes for the lock
HandleRender(c) ==
    /\ hpc[c] = "read"
    /\ c2s[c] # <<>>
    /\ Head(c2s[c]).type = "render"
    /\ c2s' = [c2s EXCEPT ![c] = Tail(@)]
    /\ hpc' = [hpc EXCEPT ![c] = "register"]
    /\ UNCHANGED <<ip, cstate, s2c, request, served, nsent>>
    /\ UNCHANGED <<srvVars, poolVars, cmdVars, frameVars, accepted>>

\* the lowest-indexed slot that is taken, 0 if none
FreeSlotTaken(reqs) ==
    IF \E k \in 1..Len(reqs) : reqs[k] # None
    THEN CHOOSE k \in 1..Len(reqs) :
             reqs[k] # None /\ \A j \in 1..(k - 1) : reqs[j] = None
    ELSE 0

\* lines 324-330: the lowest-indexed empty slot (1-based here), 0 if none
FreeSlot(reqs) ==
    IF \E k \in 1..Len(reqs) : reqs[k] = None
    THEN CHOOSE k \in 1..Len(reqs) :
             reqs[k] = None /\ \A j \in 1..(k - 1) : reqs[j] # None
    ELSE 0

\* the requester put in the first slot whether or not it is empty
PlaceFirst(reqs, c) == [reqs EXCEPT ![1] = c]

\* lines 332-338: the vector with the requester put in
Place(reqs, c) ==
    IF FreeSlot(reqs) # 0
    THEN [reqs EXCEPT ![FreeSlot(reqs)] = c]
    ELSE Append(reqs, c)

\* lines 320-339: the critical section that registers the render requester
Register(c) ==
    /\ hpc[c] = "register"
    /\ mutex[ip[c]] = "free"
    /\ render_requesters' = [render_requesters EXCEPT ![ip[c]] = Place(@, c)]
    /\ hpc' = [hpc EXCEPT ![c] = "notify"]
    /\ UNCHANGED <<ip, cstate, c2s, s2c, request, served, nsent>>
    /\ UNCHANGED <<mainpc, info, queries, toBrpy, fromBrpy, mutex, wpc, slot,
                   frame_request, response, dirs, blend>>
    /\ UNCHANGED <<poolVars, cmdVars, frameVars, accepted>>

\* line 321: lock().unwrap() on a poisoned mutex panics
RegisterPoisoned(c) ==
    /\ hpc[c] = "register"
    /\ mutex[ip[c]] = "poisoned"
    /\ hpc' = [hpc EXCEPT ![c] = "panic_lock"]
    /\ UNCHANGED <<ip, cstate, c2s, s2c, request, served, nsent>>
    /\ UNCHANGED <<srvVars, poolVars, cmdVars, frameVars, accepted>>

\* handle_client returning without notify_all
NotifyLost(c) ==
    /\ hpc[c] = "notify"
    /\ hpc' = [hpc EXCEPT ![c] = "returned"]
    /\ UNCHANGED <<ip, cstate, c2s, s2c, request, served, nsent>>
    /\ UNCHANGED <<srvVars, poolVars, cmdVars, frameVars, accepted>>

\* notify_all, then on to the next request instead of returning
NotifyLoop(c) ==
    /\ hpc[c] = "notify"
    /\ wpc' = [wpc EXCEPT ![ip[c]] = IF @ = "waiting" THEN "woken" ELSE @]
    /\ hpc' = [hpc EXCEPT ![c] = "read"]
    /\ UNCHANGED <<ip, cstate, c2s, s2c, request, served, nsent>>
    /\ UNCHANGED <<mainpc, info, queries, toBrpy, fromBrpy, render_requesters,
                   mutex, slot, frame_request, response, dirs, blend>>
    /\ UNCHANGED <<poolVars, cmdVars, frameVars, accepted>>

\* lines 341-343: notify_all, then handle_client returns
Notify(c) ==
    /\ hpc[c] = "notify"
    /\ wpc' = [wpc EXCEPT ![ip[c]] = IF @ = "waiting" THEN "woken" ELSE @]
    /\ hpc' = [hpc EXCEPT ![c] = "returned"]
    /\ UNCHANGED <<ip, cstate, c2s, s2c, request, served, nsent>>
    /\ UNCHANGED <<mainpc, info, queries, toBrpy, fromBrpy, render_requesters,
                   mutex, slot, frame_request, response, dirs, blend>>
    /\ UNCHANGED <<poolVars, cmdVars, frameVars, accepted>>

\* ------------------------------------------------------------ worker_brpy
\* the elements of a sequence
Range(q) == {q[k] : k \in 1..Len(q)}

\* the sessions registered as render requesters of s
Registered(s) == Range(render_requesters[s]) \ {None}

NotFound == -1

\* a scan that starts at the first slot whichever was served last
ScanFromStart(reqs, cur, old) ==
    IF \E k \in 1..Len(reqs) : reqs[k] # None
    THEN (CHOOSE k \in 1..Len(reqs) :
              reqs[k] # None /\ \A j \in 1..(k - 1) : reqs[j] = None) - 1
    ELSE NotFound

\* lines 518-532: the cyclic scan from the slot after `cur` up to and
\* including `old`; the first occupied slot, or NotFound when the scan comes
\* back to `old` and finds it empty (slots are 0-based as in the code)
RECURSIVE Scan(_, _, _)
Scan(reqs, cur, old) ==
    LET next == (cur + 1) % Len(reqs)
    IN  IF reqs[next + 1] # None THEN next
        ELSE IF next = old THEN NotFound
        ELSE Scan(reqs, next, old)

\* requesters[slot]
AtSlot(s) == render_requesters[s][slot[s] + 1]

\* lines 512-538: lock, scan; with no requester wait on the condition
\* variable (which unlocks), else write Accept to the requester found and go
\* on to read its frame request, the lock still held
WScan(s) ==
    /\ wpc[s] = "start"
    /\ mutex[s] = "free"
    /\ LET k == Scan(render_requesters[s], slot[s], slot[s])
       IN  IF k = NotFound
           THEN /\ wpc' = [wpc EXCEPT ![s] = "waiting"]
                /\ UNCHANGED <<slot, mutex, s2c, accepted>>
           ELSE /\ slot' = [slot EXCEPT ![s] = k]
                /\ mutex' = [mutex EXCEPT ![s] = "worker"]
                /\ wpc' = [wpc EXCEPT ![s] = "frame_req"]
                /\ LET c == render_requesters[s][k + 1]
                   IN  /\ s2c' = [s2c EXCEPT ![c] = Deliver(c, Accept)]
                       /\ accepted' = [accepted EXCEPT ![s] =
                              Append(@, [to |-> c, reg |-> Registered(s)])]
    /\ UNCHANGED <<mainpc, info, queries, toBrpy, fromBrpy, render_requesters,
                   frame_request, response, dirs, blend>>
    /\ UNCHANGED <<ip, cstate, c2s, hpc, request, served, nsent>>
    /\ UNCHANGED <<poolVars, cmdVars, frameVars>>

\* Condvar::wait may return without a notification
SpuriousWake(s) ==
    /\ wpc[s] = "waiting"
    /\ wpc' = [wpc EXCEPT ![s] = "woken"]
    /\ UNCHANGED <<mainpc, info, queries, toBrpy, fromBrpy, render_requesters,
                   mutex, slot, frame_request, response, dirs, blend>>
    /\ UNCHANGED <<connVars, poolVars, cmdVars, frameVars, accepted>>

\* lines 524-525: wait returns with the lock, the guard is dropped,
\* continue 'outer
WWake(s) ==
    /\ wpc[s] = "woken"
    /\ mutex[s] = "free"
    /\ wpc' = [wpc EXCEPT ![s] = "start"]
    /\ UNCHANGED <<mainpc, info, queries, toBrpy, fromBrpy, render_requesters,
                   mutex, slot, frame_request, response, dirs, blend>>
    /\ UNCHANGED <<connVars, poolVars, cmdVars, frameVars, accepted>>

\* lines 537-547, Ok and parsed: the frame request is taken, the guard dropped
WFrameRequest(s) ==
    /\ wpc[s] = "frame_req"
    /\ LET c == AtSlot(s)
       IN  /\ c2s[c] # <<>>
           /\ ParsesAsFrameRequest(Head(c2s[c]))
           /\ frame_request' = [frame_request EXCEPT ![s] =
                  [id |-> Head(c2s[c]).id, frame |-> Head(c2s[c]).frame]]
           /\ c2s' = [c2s EXCEPT ![c] = Tail(@)]
    /\ mutex' = [mutex EXCEPT ![s] = "free"]
    /\ wpc' = [wpc EXCEPT ![s] = "render"]
    /\ UNCHANGED <<mainpc, info, queries, toBrpy, fromBrpy, render_requesters,
                   slot, response, dirs, blend>>
    /\ UNCHANGED <<ip, cstate, s2c, hpc, request, served, nsent>>
    /\ UNCHANGED <<poolVars, cmdVars, frameVars, accepted>>

\* line 545: the frame read is no FrameRequest: from_slice(..).unwrap() panics
\* with the guard alive, which poisons the mutex
WFrameMalformed(s) ==
    /\ wpc[s] = "frame_req"
    /\ LET c == AtSlot(s)
       IN  /\ c2s[c] # <<>>
           /\ ~ParsesAsFrameRequest(Head(c2s[c]))
           /\ c2s' = [c2s EXCEPT ![c] = Tail(@)]
    /\ mutex' = [mutex EXCEPT ![s] = "poisoned"]
    /\ wpc' = [wpc EXCEPT ![s] = "panic_parse"]
    /\ UNCHANGED <<mainpc, info, queries, toBrpy, fromBrpy, render_requesters,
                   slot, frame_request, response, dirs, blend>>
    /\ UNCHANGED <<ip, cstate, s2c, hpc, request, served, nsent>>
    /\ UNCHANGED <<poolVars, cmdVars, frameVars, accepted>>

\* a read error after which the requester keeps its slot
WFrameReadErrorKept(s) ==
    /\ wpc[s] = "frame_req"
    /\ c2s[AtSlot(s)] = <<>>
    /\ cstate[AtSlot(s)] = "closed"
    /\ mutex' = [mutex EXCEPT ![s] = "free"]
    /\ wpc' = [wpc EXCEPT ![s] = "start"]
    /\ UNCHANGED <<mainpc, info, queries, toBrpy, fromBrpy, render_requesters,
                   slot, frame_request, response, dirs, blend>>
    /\ UNCHANGED <<connVars, poolVars, cmdVars, frameVars, accepted>>

\* lines 541-544: read_header fails (the requester closed): the slot is
\* emptied and the loop continues
WFrameReadError(s) ==
    /\ wpc[s] = "frame_req"
    /\ c2s[AtSlot(s)] = <<>>
    /\ cstate[AtSlot(s)] = "closed"
    /\ render_requesters' = [render_requesters EXCEPT ![s][slot[s] + 1] = None]
    /\ mutex' = [mutex EXCEPT ![s] = "free"]
    /\ wpc' = [wpc EXCEPT ![s] = "start"]
    /\ UNCHANGED <<mainpc, info, queries, toBrpy, fromBrpy, slot, frame_request,
                   response, dirs, blend>>
    /\ UNCHANGED <<connVars, poolVars, cmdVars, frameVars, accepted>>

NoFrameRequest == [id |-> 0, frame |-> 0]

\* worker_brpy going back to the scan without reading the backend's answer
AfterBrpyWriteNoRead == "start"

\* where worker_brpy stands after it wrote the request to the backend
AfterBrpyWrite == "brpy_read"

\* lines 549-573: create anonymous/<hash>/render (any error but AlreadyExists
\* panics), then write BrpyRequest::Render to the backend
WRender(s) ==
    /\ wpc[s] = "render"
    /\ LET h == Hash(frame_request[s].id)
       IN  IF h \in dirs[s]
           THEN /\ toBrpy' = [toBrpy EXCEPT ![s] =
                       Append(@, Msg("render", h, frame_request[s].frame, 0))]
                /\ wpc' = [wpc EXCEPT ![s] = AfterBrpyWrite]
           ELSE /\ wpc' = [wpc EXCEPT ![s] = "panic_dir"]
                /\ UNCHANGED toBrpy
    /\ UNCHANGED <<mainpc, info, queries, fromBrpy, render_requesters, mutex,
                   slot, frame_request, response, dirs, blend>>
    /\ UNCHANGED <<connVars, poolVars, cmdVars, frameVars, accepted>>

\* lines 574-588: the backend answered Okay and the image was read back
WBrpyOkay(s) ==
    /\ wpc[s] = "brpy_read"
    /\ fromBrpy[s] # <<>>
    /\ Head(fromBrpy[s]).type = "okay"
    /\ response' = [response EXCEPT ![s] = RenderOkay(Head(fromBrpy[s]).data)]
    /\ fromBrpy' = [fromBrpy EXCEPT ![s] = Tail(@)]
    /\ wpc' = [wpc EXCEPT ![s] = "send"]
    /\ UNCHANGED <<mainpc, info, queries, toBrpy, render_requesters, mutex,
                   slot, frame_request, dirs, blend>>
    /\ UNCHANGED <<connVars, poolVars, cmdVars, frameVars, accepted>>

\* line 579: the backend answered Okay but read(&image) fails: unwrap panics
WReadBackFail(s) ==
    /\ wpc[s] = "brpy_read"
    /\ fromBrpy[s] # <<>>
    /\ Head(fromBrpy[s]).type = "okay"
    /\ fromBrpy' = [fromBrpy EXCEPT ![s] = Tail(@)]
    /\ wpc' = [wpc EXCEPT ![s] = "panic_read"]
    /\ UNCHANGED <<mainpc, info, queries, toBrpy, render_requesters, mutex,
                   slot, frame_request, response, dirs, blend>>
    /\ UNCHANGED <<connVars, poolVars, cmdVars, frameVars, accepted>>

\* lines 607-609: BrpyRenderResponse::Fail is todo!()
WBrpyFail(s) ==
    /\ wpc[s] = "brpy_read"
    /\ fromBrpy[s] # <<>>
    /\ Head(fromBrpy[s]).type = "fail"
    /\ fromBrpy' = [fromBrpy EXCEPT ![s] = Tail(@)]
    /\ wpc' = [wpc EXCEPT ![s] = "panic_todo"]
    /\ UNCHANGED <<mainpc, info, queries, toBrpy, render_requesters, mutex,
                   slot, frame_request, response, dirs, blend>>
    /\ UNCHANGED <<connVars, poolVars, cmdVars, frameVars, accepted>>

\* lines 590-605: lock again, write header and image to requesters[slot];
\* a failed write empties the slot
WSend(s) ==
    /\ wpc[s] = "send"
    /\ mutex[s] = "free"
    /\ LET c == AtSlot(s)
       IN  IF c = None
           THEN \* line 592: unwrap on None panics under the guard
                /\ wpc' = [wpc EXCEPT ![s] = "panic_unwrap"]
                /\ mutex' = [mutex EXCEPT ![s] = "poisoned"]
                /\ UNCHANGED <<render_requesters, s2c, response, frame_request>>
           ELSE /\ \E ok \in WriteResults(c) :
                     IF ok
                     THEN /\ s2c' = [s2c EXCEPT ![c] = Deliver(c, response[s])]
                          /\ UNCHANGED render_requesters
                     ELSE /\ render_requesters' =
                                [render_requesters EXCEPT ![s][slot[s] + 1] = None]
                          /\ UNCHANGED s2c
                /\ wpc' = [wpc EXCEPT ![s] = "start"]
                /\ response' = [response EXCEPT ![s] = NoMsg]
                /\ frame_request' = [frame_request EXCEPT ![s] = NoFrameRequest]
                /\ UNCHANGED mutex
    /\ UNCHANGED <<mainpc, info, queries, toBrpy, fromBrpy, slot, dirs, blend>>
    /\ UNCHANGED <<ip, cstate, c2s, hpc, request, served, nsent>>
    /\ UNCHANGED <<poolVars, cmdVars, frameVars, accepted>>

\* ------------------------------------------------------ arbitrary clients
\* the scene ids clients name; the scene of OldScene is on disk from an
\* earlier run of the service, the other one is not
SceneIds == {1, 2}
OldScene == 1
\* the bytes of the scene file of OldScene
OldBlend == <<9>>
\* the .blend bytes client c uploads: of a length and a content of its own
Blob(c) == [k \in 1..c |-> c]
Hashes == {Hash(i) : i \in SceneIds}

\* the frame number of the n-th message of client c, unlike any other's
FrameOf(c, n) == MaxSends * (c - 1) + n

\* what an arbitrary client may write next
ClientMsgs(c) ==
    {ReqUpload(i, Blob(c)) : i \in SceneIds}
        \cup {ReqRender, ReqQuery, ReqDelete, Garbage}
        \cup {FrameReq(i, FrameOf(c, nsent[c] + 1)) : i \in SceneIds}

ClientConnect(c) ==
    /\ tpc[c] = "none"
    /\ cstate[c] = "idle"
    /\ cstate' = [cstate EXCEPT ![c] = "open"]
    /\ UNCHANGED <<ip, c2s, s2c, hpc, request, served, nsent>>
    /\ UNCHANGED <<srvVars, poolVars, cmdVars, frameVars, accepted>>

ClientSend(c, m) ==
    /\ tpc[c] = "none"
    /\ cstate[c] = "open"
    /\ nsent[c] < MaxSends
    /\ Len(c2s[c]) < MaxInFlight
    /\ c2s' = [c2s EXCEPT ![c] = Append(@, m)]
    /\ nsent' = [nsent EXCEPT ![c] = @ + 1]
    /\ UNCHANGED <<ip, cstate, s2c, hpc, request, served>>
    /\ UNCHANGED <<srvVars, poolVars, cmdVars, frameVars, accepted>>

ClientClose(c) ==
    /\ tpc[c] = "none"
    /\ cstate[c] = "open"
    /\ cstate' = [cstate EXCEPT ![c] = "closed"]
    /\ UNCHANGED <<ip, c2s, s2c, hpc, request, served, nsent>>
    /\ UNCHANGED <<srvVars, poolVars, cmdVars, frameVars, accepted>>

\* ------------------------------------------------- the client dispatcher
RECURSIVE Insert(_, _)
Insert(x, sorted) ==
    IF sorted = <<>> THEN <<x>>
    ELSE IF x <= Head(sorted) THEN <<x>> \o sorted
    ELSE <<Head(sorted)>> \o Insert(x, Tail(sorted))

\* line 164: list.sort()
RECURSIVE Sort(_)
Sort(list) == IF list = <<>> THEN <<>> ELSE Insert(Head(list), Sort(Tail(list)))

\* the list as it is, were dedup() left out
DedupNone(list) == list

\* line 165: list.dedup() removes consecutive repeats
RECURSIVE Dedup(_)
Dedup(list) ==
    IF Len(list) <= 1 THEN list
    ELSE IF list[1] = list[2] THEN Dedup(Tail(list))
    ELSE <<list[1]>> \o Dedup(Tail(list))

\* the list as it is, were reverse() left out
ReverseNone(list) == list

\* line 166: list.reverse()
Reverse(list) == [k \in 1..Len(list) |-> list[Len(list) + 1 - k]]

\* lines 164-168: the pool made of the parsed list
MakePool(list) == Reverse(Dedup(Sort(list)))

\* Vec::pop takes the last element
PopResult(pool) == pool[Len(pool)]
PopRest(pool) == SubSeq(pool, 1, Len(pool) - 1)

\* the scene the dispatcher renders
RenderId == OldScene

\* the pool's mutex
Unlocked == 0
Poisoned == -1

\* the guard of the pop kept until the iteration ends
GuardKept(c) == c

\* line 387: the guard, a temporary of the match scrutinee, is dropped with
\* the end of the `let frame = match ..;` statement
GuardAfterPop(c) == Unlocked

\* the mutex when thread c drops whatever guard it holds
Dropped(c) == IF frames_lock = c THEN Unlocked ELSE frames_lock

\* the mutex when thread c panics: a guard it holds poisons the mutex
Unwound(c) == IF frames_lock = c THEN Poisoned ELSE frames_lock

\* line 365: connect
TConnect(c) ==
    /\ tpc[c] = "connect"
    /\ cstate' = [cstate EXCEPT ![c] = "open"]
    /\ tpc' = [tpc EXCEPT ![c] = "send_render"]
    /\ UNCHANGED <<ip, c2s, s2c, hpc, request, served, nsent>>
    /\ UNCHANGED <<frame, frames, frames_lock, parsed, popped, writes>>
    /\ UNCHANGED <<srvVars, cmdVars, frameVars, accepted>>

\* lines 367-368: write Request::Render
TSendRender(c) ==
    /\ tpc[c] = "send_render"
    /\ c2s' = [c2s EXCEPT ![c] = Append(@, ReqRender)]
    /\ tpc' = [tpc EXCEPT ![c] = "check"]
    /\ UNCHANGED <<ip, cstate, s2c, hpc, request, served, nsent>>
    /\ UNCHANGED <<frame, frames, frames_lock, parsed, popped, writes>>
    /\ UNCHANGED <<srvVars, cmdVars, frameVars, accepted>>

\* lines 371-373: return (dropping the connection) when the pool is empty
TCheck(c) ==
    /\ tpc[c] = "check"
    /\ frames_lock = Unlocked
    /\ IF frames = <<>>
       THEN /\ tpc' = [tpc EXCEPT ![c] = "done"]
            /\ cstate' = [cstate EXCEPT ![c] = "closed"]
       ELSE /\ tpc' = [tpc EXCEPT ![c] = "read_accept"]
            /\ UNCHANGED cstate
    /\ UNCHANGED <<ip, c2s, s2c, hpc, request, served, nsent>>
    /\ UNCHANGED <<frame, frames, frames_lock, parsed, popped, writes>>
    /\ UNCHANGED <<srvVars, cmdVars, frameVars, accepted>>

\* lines 375-380: read the RenderAcceptResponse
TReadAccept(c) ==
    /\ tpc[c] = "read_accept"
    /\ s2c[c] # <<>>
    /\ s2c' = [s2c EXCEPT ![c] = Tail(@)]
    /\ tpc' = [tpc EXCEPT ![c] =
                  IF ParsesAsAccept(Head(s2c[c])) THEN "pop" ELSE "panic_parse"]
    /\ UNCHANGED <<ip, cstate, c2s, hpc, request, served, nsent>>
    /\ UNCHANGED <<frame, frames, frames_lock, parsed, popped, writes>>
    /\ UNCHANGED <<srvVars, cmdVars, frameVars, accepted>>

\* lines 382-396: pop under the pool lock; None returns, Some(frame) is sent
\* as the FrameRequest
TPop(c) ==
    /\ tpc[c] = "pop"
    /\ frames_lock = Unlocked
    /\ IF frames = <<>>
       THEN /\ tpc' = [tpc EXCEPT ![c] = "done"]
            /\ cstate' = [cstate EXCEPT ![c] = "closed"]
            /\ UNCHANGED <<frame, frames, frames_lock, popped, c2s>>
       ELSE /\ frame' = [frame EXCEPT ![c] = PopResult(frames)]
            /\ frames' = PopRest(frames)
            /\ frames_lock' = GuardAfterPop(c)
            /\ popped' = Append(popped, PopResult(frames))
            /\ c2s' = [c2s EXCEPT ![c] = Append(@, FrameReq(RenderId, PopResult(frames)))]
            /\ tpc' = [tpc EXCEPT ![c] = "read_image"]
            /\ UNCHANGED cstate
    /\ UNCHANGED <<ip, s2c, hpc, request, served, nsent>>
    /\ UNCHANGED <<parsed, writes>>
    /\ UNCHANGED <<srvVars, cmdVars, frameVars, accepted>>

\* lines 398-409: read RenderResponse::Okay and the image, write the file
\* named after the local `frame`
TReadImage(c) ==
    /\ tpc[c] = "read_image"
    /\ s2c[c] # <<>>
    /\ s2c' = [s2c EXCEPT ![c] = Tail(@)]
    /\ IF Head(s2c[c]).type = "renderokay"
       THEN /\ writes' = [writes EXCEPT ![frame[c]] = @ + 1]
            /\ tpc' = [tpc EXCEPT ![c] = "check"]
            /\ frames_lock' = Dropped(c)
       ELSE /\ tpc' = [tpc EXCEPT ![c] = "panic_parse"]
            /\ frames_lock' = Unwound(c)
            /\ UNCHANGED writes
    /\ UNCHANGED <<ip, cstate, c2s, hpc, request, served, nsent>>
    /\ UNCHANGED <<frame, frames, parsed, popped>>
    /\ UNCHANGED <<srvVars, cmdVars, frameVars, accepted>>

\* lines 365, 456-466: connect fails: connect panics
TConnectFail(c) ==
    /\ tpc[c] = "connect"
    /\ tpc' = [tpc EXCEPT ![c] = "panic_connect"]
    /\ UNCHANGED <<frame, frames, frames_lock, parsed, popped, writes>>
    /\ UNCHANGED <<srvVars, connVars, cmdVars, frameVars, accepted>>

\* line 368: the connection is lost before Request::Render is written:
\* write_all(..).unwrap() panics and the stream is dropped
TWriteFail(c) ==
    /\ tpc[c] = "send_render"
    /\ tpc' = [tpc EXCEPT ![c] = "panic_write"]
    /\ cstate' = [cstate EXCEPT ![c] = "closed"]
    /\ UNCHANGED <<ip, c2s, s2c, hpc, request, served, nsent>>
    /\ UNCHANGED <<frame, frames, frames_lock, parsed, popped, writes>>
    /\ UNCHANGED <<srvVars, cmdVars, frameVars, accepted>>

\* lines 375, 398: the connection is lost while the thread waits for the
\* service: read_header(..).unwrap() panics and the stream is dropped
TReadFail(c) ==
    /\ tpc[c] \in {"read_accept", "read_image"}
    /\ tpc' = [tpc EXCEPT ![c] = "panic_read"]
    /\ cstate' = [cstate EXCEPT ![c] = "closed"]
    /\ frames_lock' = Unwound(c)
    /\ UNCHANGED <<ip, c2s, s2c, hpc, request, served, nsent>>
    /\ UNCHANGED <<frame, frames, parsed, popped, writes>>
    /\ UNCHANGED <<srvVars, cmdVars, frameVars, accepted>>

\* the sequences over S of length up to n
RECURSIVE SeqsUpTo(_, _)
SeqsUpTo(S, n) ==
    IF n = 0 THEN {<<>>}
    ELSE SeqsUpTo(S, n - 1)
             \cup {Append(q, x) : q \in {r \in SeqsUpTo(S, n - 1) : Len(r) = n - 1}, x \in S}

\* ------------------------------------------- main: the <frames> argument
\* a string is the sequence of its characters
Digits == <<"0", "1", "2", "3", "4", "5", "6", "7", "8", "9">>
IsDigit(ch) == \E d \in 1..10 : Digits[d] = ch
DigitVal(ch) == (CHOOSE d \in 1..10 : Digits[d] = ch) - 1

\* what parse::<usize>() gives when it is Err
Err == -1

\* str::parse::<usize>: a non-empty string of decimal digits
RECURSIVE ParseUsize(_)
ParseUsize(str) ==
    IF str = <<>> \/ \E k \in 1..Len(str) : ~IsDigit(str[k]) THEN Err
    ELSE IF Len(str) = 1 THEN DigitVal(str[1])
    ELSE 10 * ParseUsize(SubSeq(str, 1, Len(str) - 1)) + DigitVal(str[Len(str)])

\* `sep` stands in `str` at position k
At(str, sep, k) ==
    /\ k + Len(sep) - 1 <= Len(str)
    /\ SubSeq(str, k, k + Len(sep) - 1) = sep

\* str::split: the pieces between the occurrences of `sep`, left to right
RECURSIVE Split(_, _)
Split(str, sep) ==
    IF \E k \in 1..Len(str) : At(str, sep, k)
    THEN LET k == CHOOSE i \in 1..Len(str) :
                      At(str, sep, i) /\ \A j \in 1..(i - 1) : ~At(str, sep, j)
         IN  <<SubSeq(str, 1, k - 1)>>
                 \o Split(SubSeq(str, k + Len(sep), Len(str)), sep)
    ELSE <<str>>

\* str::split_terminator: as split, but an empty last piece is left out
SplitTerminator(str, sep) ==
    LET pieces == Split(str, sep)
    IN  IF pieces[Len(pieces)] = <<>>
        THEN SubSeq(pieces, 1, Len(pieces) - 1)
        ELSE pieces

\* start..end, its end left out
RangeExclusive(start, end) ==
    IF start >= end THEN <<>> ELSE [k \in 1..(end - start) |-> start + k - 1]

\* line 159: (start..=end).collect()
RangeInclusive(start, end) ==
    IF start > end THEN <<>> ELSE [k \in 1..(end - start + 1) |-> start + k - 1]

\* the list when main panics while it parses
Panic == <<Err>>

\* lines 148-162: the list of the pieces, in the order given; an index out
\* of bounds (lines 156, 157) or a failed parse().unwrap() panics
RECURSIVE ParsePieces(_)
ParsePieces(pieces) ==
    IF pieces = <<>> THEN <<>>
    ELSE LET range == Head(pieces)
             number == ParseUsize(range)
             bounds == SplitTerminator(range, <<".", ".">>)
             rest == ParsePieces(Tail(pieces))
             this ==
                 IF number # Err THEN <<number>>
                 ELSE IF Len(bounds) < 2 THEN Panic
                 ELSE IF ParseUsize(bounds[1]) = Err \/ ParseUsize(bounds[2]) = Err
                      THEN Panic
                 ELSE RangeInclusive(ParseUsize(bounds[1]), ParseUsize(bounds[2]))
         IN  IF this = Panic \/ rest = Panic THEN Panic ELSE this \o rest

\* lines 146-162: the list parsed of the argument
ParseList(str) == ParsePieces(SplitTerminator(str, <<",">>))

\* lines 145-169: parse, then sort, dedup and reverse into the pool
MainParse ==
    /\ cmdpc = "parse"
    /\ LET list == ParseList(descriptor)
       IN  IF list = Panic
           THEN /\ cmdpc' = "panic_parse"
                /\ UNCHANGED <<frames, parsed>>
           ELSE /\ cmdpc' = "spawn"
                /\ frames' = MakePool(list)
                /\ parsed' = {list[k] : k \in 1..Len(list)}
    /\ UNCHANGED <<descriptor, given>>
    /\ UNCHANGED <<tpc, frame, frames_lock, popped, writes>>
    /\ UNCHANGED <<srvVars, connVars, frameVars, accepted>>

\* the decimal digits of n
RECURSIVE DecStr(_)
DecStr(n) ==
    IF n < 10 THEN <<Digits[n + 1]>>
    ELSE DecStr(n \div 10) \o <<Digits[(n % 10) + 1]>>

\* the numbers the arguments name, and how many items an argument has
FrameNums == {0, 1, 2, 9, 10}
MaxItems == 2

\* an item is a singleton N, here <<N>>, or a range N..M, here <<N, M>>
Items == {<<n>> : n \in FrameNums} \cup (FrameNums \X FrameNums)

\* the item as it is written: "N" or "N..M"
ItemStr(it) ==
    IF Len(it) = 1 THEN DecStr(it[1])
    ELSE DecStr(it[1]) \o <<".", ".">> \o DecStr(it[2])

\* the items written one after the other with commas between
RECURSIVE Join(_)
Join(its) ==
    IF its = <<>> THEN <<>>
    ELSE IF Len(its) = 1 THEN ItemStr(its[1])
    ELSE ItemStr(its[1]) \o <<",">> \o Join(Tail(its))

\* ---------------------------------------------------------------- framing
\* u16::to_le_bytes, most significant byte first
ToBeBytes(n) == <<(n \div 256) % 256, n % 256>>

\* line 450: u16::to_le_bytes
ToLeBytes(n) == <<n % 256, (n \div 256) % 256>>

\* line 443: u16::from_le_bytes
FromLeBytes(b) == b[1] + 256 * b[2]

\* u16::MAX
U16Max == 65535

\* lines 449-454: the frame of `bytes`; u16::try_from(len).unwrap() panics
\* on a longer payload
FitsU16(bytes) == Len(bytes) <= U16Max
ToHeader(bytes) == ToLeBytes(Len(bytes)) \o bytes

\* lines 439-447: read_exact of two bytes, then of as many as they say;
\* Err when the stream ends before that
ReadHeaderOk(bytes) ==
    /\ Len(bytes) >= 2
    /\ Len(bytes) >= 2 + FromLeBytes(SubSeq(bytes, 1, 2))
ReadHeaderResult(bytes) == SubSeq(bytes, 3, 2 + FromLeBytes(SubSeq(bytes, 1, 2)))
ReadHeaderRest(bytes) ==
    SubSeq(bytes, 3 + FromLeBytes(SubSeq(bytes, 1, 2)), Len(bytes))

\* a writer frames `content` and writes it, then the bytes that follow it
FrameWrite ==
    /\ fpc = "write"
    /\ IF FitsU16(content)
       THEN /\ stream' = ToHeader(content) \o trailing
            /\ fpc' = "read"
       ELSE /\ fpc' = "panic_len"
            /\ UNCHANGED stream
    /\ UNCHANGED <<content, trailing, header>>
    /\ UNCHANGED <<srvVars, connVars, poolVars, cmdVars, accepted>>

\* the reader calls read_header on the stream
FrameRead ==
    /\ fpc = "read"
    /\ IF ReadHeaderOk(stream)
       THEN /\ header' = ReadHeaderResult(stream)
            /\ stream' = ReadHeaderRest(stream)
            /\ fpc' = "done"
       ELSE /\ fpc' = "read_err"
            /\ UNCHANGED <<header, stream>>
    /\ UNCHANGED <<content, trailing>>
    /\ UNCHANGED <<srvVars, connVars, poolVars, cmdVars, accepted>>

\* the payloads: every content of up to two bytes 0 or 255, and one content
\* (byte k is k + seed) of each length about the byte and the u16 boundary
PayloadLens == {255, 256, 257, U16Max - 1, U16Max, U16Max + 1}
MaxTrail == 2
Payloads ==
    SeqsUpTo({0, 255}, 2)
        \cup {[k \in 1..n |-> (k + seed) % 256] : n \in PayloadLens, seed \in {0, 7}}

\* ------------------------------------------------------------------ Init
\* the state of services ss before any thread has run, and of the service
\* side of connections cc
Fresh(ss, cc) ==
    /\ mainpc = [s \in ss |-> "query_write"]
    /\ info = [s \in ss |-> NoInfo]
    /\ queries = [s \in ss |-> 0]
    /\ toBrpy = [s \in ss |-> <<>>]
    /\ fromBrpy = [s \in ss |-> <<>>]
    /\ render_requesters = [s \in ss |-> <<None>>]
    /\ mutex = [s \in ss |-> "free"]
    /\ wpc = [s \in ss |-> "unborn"]
    /\ accepted = [s \in ss |-> <<>>]
    /\ slot = [s \in ss |-> 0]
    /\ frame_request = [s \in ss |-> NoFrameRequest]
    /\ response = [s \in ss |-> NoMsg]
    /\ dirs = [s \in ss |-> {Hash(OldScene)}]
    /\ blend = [s \in ss |-> [h \in Hashes |-> IF h = Hash(OldScene) THEN OldBlend ELSE NoFile]]
    /\ s2c = [c \in cc |-> <<>>]
    /\ hpc = [c \in cc |-> "none"]
    /\ request = [c \in cc |-> NoMsg]
    /\ served = [c \in cc |-> 0]
    /\ frame = [c \in cc |-> NoFrame]
    /\ frames_lock = Unlocked
    /\ popped = <<>>
    /\ writes = [f \in 1..MaxFrame |-> 0]

\* connections cc not yet made
Idle(cc) ==
    /\ cstate = [c \in cc |-> "idle"]
    /\ c2s = [c \in cc |-> <<>>]
    /\ nsent = [c \in cc |-> 0]

\* the state of services ss with connections cc, before any thread has run
InitOf(ss, cc) == Fresh(ss, cc) /\ Idle(cc)

\* `serve`: one service, arbitrary clients
Init ==
    /\ InitOf({1}, 1..NumClients)
    /\ cmdpc = "none" /\ descriptor = <<>> /\ given = <<>>
    /\ fpc = "none" /\ content = <<>> /\ trailing = <<>> /\ stream = <<>>
    /\ header = <<>>
    /\ ip = [c \in 1..NumClients |-> 1]
    /\ tpc = [c \in 1..NumClients |-> "none"]
    /\ frames = <<>>
    /\ parsed = {}

\* the parsed lists, before sort and dedup
InputLists == SeqsUpTo(1..MaxFrame, MaxListLen)

\* `render`: the dispatcher's threads, one per address, against services
\* (the service of the first address is called 1)
InitRender ==
    /\ InitOf(1..NumServices, 1..NumThreads)
    /\ cmdpc = "spawn" /\ descriptor = <<>> /\ given = <<>>
    /\ fpc = "none" /\ content = <<>> /\ trailing = <<>> /\ stream = <<>>
    /\ header = <<>>
    /\ ip \in {f \in [1..NumThreads -> 1..NumServices] : f[1] = 1}
    /\ tpc = [c \in 1..NumThreads |-> "connect"]
    /\ \E list \in InputLists :
           /\ frames = MakePool(list)
           /\ parsed = {list[k] : k \in 1..Len(list)}

\* `render` before it spawns its threads: a valid <frames> argument
InitParse ==
    /\ InitOf({}, {})
    /\ ip = <<>> /\ tpc = <<>>
    /\ frames = <<>> /\ parsed = {}
    /\ fpc = "none" /\ content = <<>> /\ trailing = <<>> /\ stream = <<>>
    /\ header = <<>>
    /\ cmdpc = "parse"
    /\ given \in SeqsUpTo(Items, MaxItems)
    /\ descriptor = Join(given)

NextParse == MainParse

\* one frame written to a stream and read back
InitFrame ==
    /\ InitOf({}, {})
    /\ ip = <<>> /\ tpc = <<>>
    /\ frames = <<>> /\ parsed = {}
    /\ cmdpc = "none" /\ descriptor = <<>> /\ given = <<>>
    /\ fpc = "write"
    /\ content \in Payloads
    /\ trailing \in SeqsUpTo({0, 255}, MaxTrail)
    /\ stream = <<>>
    /\ header = <<>>

NextFrame == FrameWrite \/ FrameRead

SpecFrame == InitFrame /\ [][NextFrame]_vars

SpecParse == InitParse /\ [][NextParse]_vars

\* the Accepts that have reached client c
Accepts(c) == Cardinality({k \in 1..Len(s2c[c]) : s2c[c][k].type = "accept"})

\* the messages of a client that has asked to render: a frame request, for
\* the scene that is there, in answer to each Accept
RequesterMsgs(c) ==
    IF Accepts(c) >= nsent[c]
    THEN {FrameReq(OldScene, FrameOf(c, nsent[c] + 1))}
    ELSE {}

\* connections cc made, with Request::Render written on each
Asked(cc) ==
    /\ cstate = [c \in cc |-> "open"]
    /\ c2s = [c \in cc |-> <<ReqRender>>]
    /\ nsent = [c \in cc |-> 1]

\* `serve` with clients that have connected and asked to render
NumRequesters == 3
InitRobin ==
    /\ Fresh({1}, 1..NumRequesters)
    /\ Asked(1..NumRequesters)
    /\ cmdpc = "none" /\ descriptor = <<>> /\ given = <<>>
    /\ fpc = "none" /\ content = <<>> /\ trailing = <<>> /\ stream = <<>>
    /\ header = <<>>
    /\ ip = [c \in 1..NumRequesters |-> 1]
    /\ tpc = [c \in 1..NumRequesters |-> "none"]
    /\ frames = <<>>
    /\ parsed = {}

\* ------------------------------------------------------------------ Next
ServiceStep ==
    \/ \E s \in Services : MainQueryWrite(s)
    \/ \E s \in Services : MainQueryRead(s)
    \/ \E s \in Services : BrpyQuery(s)
    \/ \E c \in Conns : AcceptConn(c)
    \/ \E c \in Conns : HandleRender(c)
    \/ \E c \in Conns : Register(c)
    \/ \E c \in Conns : Notify(c)
    \/ \E s \in Services : WScan(s)
    \/ \E s \in Services : SpuriousWake(s)
    \/ \E s \in Services : WWake(s)
    \/ \E s \in Services : WFrameRequest(s)
    \/ \E s \in Services : WFrameReadError(s)
    \/ \E s \in Services : WRender(s)
    \/ \E s \in Services : BrpyRenderOkay(s)
    \/ \E s \in Services : WBrpyOkay(s)
    \/ \E s \in Services : WSend(s)

Next ==
    \/ ServiceStep
    \/ \E s \in Services : BrpyRenderFail(s)
    \/ \E s \in Services : WFrameMalformed(s)
    \/ \E s \in Services : WReadBackFail(s)
    \/ \E s \in Services : WBrpyFail(s)
    \/ \E c \in Conns : HandleReadError(c)
    \/ \E c \in Conns : HandleMalformed(c)
    \/ \E c \in Conns : HandleDelete(c)
    \/ \E c \in Conns, opened \in BOOLEAN : HandleUpload(c, opened)
    \/ \E c \in Conns, n \in 0..NumClients : UploadWrite(c, n)
    \/ \E c \in Conns : HandleQuery(c)
    \/ \E c \in Conns : RegisterPoisoned(c)
    \/ \E c \in Conns : ClientConnect(c)
    \/ \E c \in Conns : \E m \in ClientMsgs(c) : ClientSend(c, m)
    \/ \E c \in Conns : ClientClose(c)

ThreadStep ==
    \/ \E c \in Conns : TConnect(c)
    \/ \E c \in Conns : TSendRender(c)
    \/ \E c \in Conns : TCheck(c)
    \/ \E c \in Conns : TReadAccept(c)
    \/ \E c \in Conns : TPop(c)
    \/ \E c \in Conns : TReadImage(c)

NextRender == ServiceStep \/ ThreadStep

\* `serve` with clients that only ask for renders
NextRobin ==
    \/ ServiceStep
    \/ \E c \in Conns : \E m \in RequesterMsgs(c) : ClientSend(c, m)
    \/ \E c \in Conns : ClientClose(c)

SpecRobin == InitRobin /\ [][NextRobin]_vars

\* a thread of the dispatcher loses its service
CrashStep ==
    \/ \E c \in Conns : TConnectFail(c)
    \/ \E c \in Conns : TWriteFail(c)
    \/ \E c \in Conns : TReadFail(c)

NextCrash == ServiceStep \/ ThreadStep \/ CrashStep

Spec == Init /\ [][Next]_vars

SpecRender == InitRender /\ [][NextRender]_vars

\* the threads of the program, each the steps of one thread
MainThread(s) == MainQueryWrite(s) \/ MainQueryRead(s)
AcceptLoop(c) == AcceptConn(c)
Handler(c) == HandleRender(c) \/ Register(c) \/ Notify(c)
Worker(s) ==
    \/ WScan(s) \/ WWake(s) \/ WFrameRequest(s) \/ WFrameReadError(s)
    \/ WRender(s) \/ WBrpyOkay(s) \/ WSend(s)
Backend(s) == BrpyQuery(s) \/ BrpyRenderOkay(s)
Thread(c) ==
    \/ TConnect(c) \/ TSendRender(c) \/ TCheck(c) \/ TReadAccept(c)
    \/ TPop(c) \/ TReadImage(c)

\* every thread that can take a step eventually takes one; the backends
\* answer; no wakeup is owed to chance
Fairness ==
    /\ \A s \in 1..NumServices :
           WF_vars(MainThread(s)) /\ WF_vars(Worker(s)) /\ WF_vars(Backend(s))
    /\ \A c \in 1..NumThreads :
           WF_vars(AcceptLoop(c)) /\ WF_vars(Handler(c)) /\ WF_vars(Thread(c))

LiveRender == InitRender /\ [][NextRender]_vars /\ Fairness

\* `render` against services that may be lost or stall
SpecCrash == InitRender /\ [][NextCrash]_vars

\* the first service (that of the first address) and the connections to it
FirstService == 1
OnFirst == {c \in 1..NumThreads : ip[c] = FirstService}

\* the threads of the dispatcher are scheduled and the first service works;
\* the other services may stall at any point, and any connection may be lost
FairnessFirst ==
    /\ WF_vars(MainThread(FirstService))
    /\ WF_vars(Worker(FirstService))
    /\ WF_vars(Backend(FirstService))
    /\ \A c \in 1..NumThreads :
           /\ WF_vars(Thread(c))
           /\ WF_vars(ip[c] = FirstService /\ AcceptLoop(c))
           /\ WF_vars(ip[c] = FirstService /\ Handler(c))

LiveCrash == InitRender /\ [][NextCrash]_vars /\ FairnessFirst

\* =====================================================================
\* The client dispatcher
\* =====================================================================
\* C1: under every interleaving of the dispatcher's threads no frame is
\* popped from the pool twice, so no frame number goes out in two frame
\* requests, be it of two threads or of one.
C1_PoppedAtMostOnce ==
    /\ \A i, j \in 1..Len(popped) : i # j => popped[i] # popped[j]
    /\ \A k \in 1..Len(popped) : popped[k] \notin Range(frames)
    /\ \A c, d \in Conns :
           (c # d /\ tpc[c] = "read_image" /\ tpc[d] = "read_image")
               => frame[c] # frame[d]

\* two threads hold a popped frame each at the same time
C1_Witness ==
    \E c, d \in Conns :
        /\ c # d
        /\ tpc[c] = "read_image" /\ tpc[d] = "read_image"
        /\ Len(popped) >= 2

AllDone == \A c \in Conns : tpc[c] = "done"

\* C3: against cooperating services every thread of the dispatcher
\* eventually returns, the pool ends empty, and the image file of every
\* frame of the parsed set has been written exactly once (and no other).
C3_AllFramesRendered ==
    <>[](/\ AllDone
         /\ frames = <<>>
         /\ \A f \in 1..MaxFrame : writes[f] = IF f \in parsed THEN 1 ELSE 0)

\* two threads on two services are done with a pool of two frames
C3_Witness ==
    /\ AllDone
    /\ frames = <<>>
    /\ Cardinality(parsed) = 2
    /\ \A f \in parsed : writes[f] = 1
    /\ \E c, d \in Conns : ip[c] # ip[d]

\* the frames in the order pops return them
RECURSIVE PopOrder(_)
PopOrder(pool) ==
    IF pool = <<>> THEN <<>> ELSE <<PopResult(pool)>> \o PopOrder(PopRest(pool))

\* "7,1..3,5,2..2" as parsed, before sort and dedup
ExampleList == <<7, 1, 2, 3, 5, 2>>

\* C4 as claimed: workers pop the largest remaining frame first: every
\* popped frame is greater than every frame still in the pool.
C4_LargestFirst ==
    \A i \in 1..Len(popped) : \A j \in 1..Len(frames) : popped[i] > frames[j]

\* C4 as the code has it: the pool is sorted, deduplicated and then reversed,
\* so it is strictly descending and pops return the smallest remaining frame
\* first: every popped frame is less than every frame still in the pool, pops
\* come in ascending order, and the frame set {1,2,3,5,7} pops as 1,2,3,5,7.
C4_SmallestFirst ==
    /\ \A i, j \in 1..Len(frames) : i < j => frames[i] > frames[j]
    /\ \A i \in 1..Len(popped) : \A j \in 1..Len(frames) : popped[i] < frames[j]
    /\ \A i, j \in 1..Len(popped) : i < j => popped[i] < popped[j]
    /\ MakePool(ExampleList) = <<7, 5, 3, 2, 1>>
    /\ PopOrder(MakePool(ExampleList)) = <<1, 2, 3, 5, 7>>

\* a frame has been popped and another is still in the pool
C4_Witness == Len(popped) >= 1 /\ Len(frames) >= 1

\* =====================================================================
\* The worker service
\* =====================================================================
\* the frame numbers client c uses in its frame requests
FramesOf(c) == {FrameOf(c, n) : n \in 1..MaxSends}

\* C2: with any number of render sessions at most one request is outstanding
\* against the backend (written and its answer not yet read), the startup
\* query included; so a render is written only once the answer to the
\* request before it has been read.
C2_OneOutstanding ==
    \A s \in Services : Len(toBrpy[s]) + Len(fromBrpy[s]) <= 1

\* a render is outstanding while two sessions are registered
C2_Witness ==
    \E s \in Services :
        /\ toBrpy[s] # <<>>
        /\ Head(toBrpy[s]).type = "render"
        /\ Cardinality(Registered(s)) = 2

\* C5 as claimed: the lock is never held across a wait on a client socket,
\* so no session that wants to register finds the lock held by a dispatcher
\* that waits for a client's frame request.
C5_NoLockWhileWaiting ==
    \A d \in Conns :
        hpc[d] = "register" =>
            ~(/\ mutex[ip[d]] = "worker"
              /\ wpc[ip[d]] = "frame_req"
              /\ c2s[AtSlot(ip[d])] = <<>>)

\* C6: what the dispatcher renders and sends goes to the session whose frame
\* request it read: from reading the request to sending the result the slot
\* is neither emptied nor given to another session, and every image a client
\* gets is of a frame it asked for.
C6_ResponseToRequester ==
    /\ \A s \in Services :
           wpc[s] \in {"render", "brpy_read", "send"} =>
               /\ AtSlot(s) # None
               /\ frame_request[s].frame \in FramesOf(AtSlot(s))
    /\ \A c \in Conns : \A k \in 1..Len(s2c[c]) :
           s2c[c][k].type = "renderokay" => s2c[c][k].data.frame \in FramesOf(c)

\* a client has its image while another session is registered
C6_Witness ==
    \E c \in Conns :
        /\ \E k \in 1..Len(s2c[c]) : s2c[c][k].type = "renderokay"
        /\ Cardinality(Registered(ip[c])) = 2

\* C7 as claimed: a malformed frame request or a failed read-back of the
\* image ends that session only; the dispatcher lives on to render for the
\* other sessions.
C7_DispatcherSurvives ==
    \A s \in Services : wpc[s] \notin {"panic_parse", "panic_read"}

\* handle_client has handed the connection over to the dispatcher
Handed(c) == hpc[c] \in {"register", "notify", "returned"}

\* C8 as claimed: after Render the session is back in the dispatch state, so
\* every Request read off a connection is read by handle_client's dispatch.
C8_BackToDispatch ==
    [][\A c \in Conns :
          (Len(c2s'[c]) < Len(c2s[c]) /\ ParsesAsRequest(Head(c2s[c])))
              => hpc[c] = "read"]_vars

\* C8 as the code has it: after Render handle_client registers the connection
\* as a render requester and returns; it never reads from the connection
\* again, and whatever the client writes afterwards is read by worker_brpy
\* in place of a frame request.
C8_HandedToDispatcher ==
    [][\A c \in Conns :
          Handed(c) =>
              /\ hpc'[c] \in {"register", "notify", "returned", "panic_lock"}
              /\ Len(c2s'[c]) < Len(c2s[c])
                     => (wpc[ip[c]] = "frame_req" /\ AtSlot(ip[c]) = c)]_vars

\* worker_brpy is about to read a Query as the frame request of a session
\* whose handler has returned
C8_Witness ==
    \E c \in Conns :
        /\ hpc[c] = "returned"
        /\ wpc[ip[c]] = "frame_req"
        /\ AtSlot(ip[c]) = c
        /\ c2s[c] # <<>>
        /\ Head(c2s[c]).type = "query"

\* C9 as claimed: a read error on a session that has served a request ends
\* the handler normally; only a session that has served none fails on it.
C9_CleanDisconnect ==
    \A c \in Conns : hpc[c] = "panic_read" => served[c] = 0

\* the state part of C10
C10_Cached ==
    /\ \A s \in Services :
           /\ queries[s] <= 1
           /\ mainpc[s] = "accept" => (queries[s] = 1 /\ info[s] = BrpyInfo(s))
    /\ \A c \in Conns :
           /\ hpc[c] # "none" => mainpc[ip[c]] = "accept"
           /\ \A k \in 1..Len(s2c[c]) :
                  s2c[c][k].type = "info" => s2c[c][k].data = BrpyInfo(ip[c])

\* the step part of C10: a Query of a client that is there is answered and
\* leaves the handler reading the next request
C10_StaysOpen ==
    \A c \in Conns :
        (/\ hpc[c] = "read"
         /\ c2s[c] # <<>>
         /\ Head(c2s[c]).type = "query"
         /\ cstate[c] = "open"
         /\ Len(c2s'[c]) < Len(c2s[c]))
            => /\ hpc'[c] = "read"
               /\ s2c'[c] = Append(s2c[c], Msg("info", 0, 0, BrpyInfo(ip[c])))

\* C10: the capability record is asked of the backend once, before any
\* connection is served, and every Query, whatever else goes on, is answered
\* with that very record and leaves the session open.
C10_QueryInfo == []C10_Cached /\ [][C10_StaysOpen]_vars

\* a Query has been answered while a render is with the backend
C10_Witness ==
    \E c \in Conns :
        /\ \E k \in 1..Len(s2c[c]) : s2c[c][k].type = "info"
        /\ wpc[ip[c]] = "brpy_read"

\* =====================================================================
\* Uploads
\* =====================================================================
\* the Upload handle_client is saving, or is about to
UploadOf(c) == IF hpc[c] = "write_file" THEN request[c] ELSE Head(c2s[c])

\* the state part of C11: a handler that has returned after an upload has
\* answered it
C11_Closed == \A c \in Conns : hpc[c] = "done" => served[c] >= 1

\* the step part of C11
C11_Answered ==
    \A c \in Conns :
        /\ (hpc[c] # "done" /\ hpc'[c] = "done" /\ cstate[c] = "open") =>
               LET m == UploadOf(c)
                   file == blend'[ip[c]][Hash(m.id)]
                   written ==
                       /\ hpc[c] = "write_file"
                       /\ Len(file) >= Len(m.data)
                       /\ SubSeq(file, 1, Len(m.data)) = m.data
                   reply == s2c'[c][Len(s2c'[c])]
               IN  /\ Len(s2c'[c]) = Len(s2c[c]) + 1
                   /\ reply.type = IF written THEN "okay" ELSE "fail"
                   /\ reply.type = "fail" => reply.data = "Could not save file"
        /\ (hpc[c] = "write_file" /\ cstate[c] = "open") =>
               hpc'[c] \in {"write_file", "done"}
        /\ (/\ hpc[c] = "read" /\ c2s[c] # <<>> /\ Head(c2s[c]).type = "upload"
            /\ cstate[c] = "open" /\ hpc'[c] # "read") =>
               hpc'[c] \in {"write_file", "done"}
        /\ hpc[c] = "done" =>
               /\ hpc'[c] = "done"
               /\ c2s'[c] = c2s[c] \/ Len(c2s'[c]) > Len(c2s[c])
               /\ s2c'[c] = s2c[c]

\* C11: an Upload of a client that is there is answered Okay when fs::write
\* wrote the scene file and Fail{"Could not save file"} when it failed, be it
\* at opening the file or part way; the handler does not panic on that
\* failure, and after the answer it returns: nothing more is read from or
\* written to the connection.
C11_UploadAnswered == []C11_Closed /\ [][C11_Answered]_vars

\* one upload has been answered Okay and another Fail, both sessions over
C11_Witness ==
    \E c, d \in Conns :
        /\ hpc[c] = "done" /\ hpc[d] = "done"
        /\ s2c[c] # <<>> /\ s2c[c][Len(s2c[c])].type = "okay"
        /\ s2c[d] # <<>> /\ s2c[d][Len(s2c[d])].type = "fail"

\* C12 as claimed: when an upload of id X with bytes B is answered Okay the
\* scene file of X holds exactly B (with several uploads of one id, the
\* bytes of the one that wrote last), and no upload changes the scene file
\* of an id with another fingerprint.
C12_LastWriterWins ==
    [][\A c \in Conns :
          hpc[c] = "write_file" =>
              LET m == request[c]
                  s == ip[c]
              IN  /\ (/\ hpc'[c] = "done"
                      /\ Len(s2c'[c]) > Len(s2c[c])
                      /\ s2c'[c][Len(s2c'[c])].type = "okay")
                         => blend'[s][Hash(m.id)] = m.data
                  /\ hpc'[c] # "write_file" =>
                         \A h \in Hashes \ {Hash(m.id)} :
                             blend'[s][h] = blend[s][h]]_vars

\* =====================================================================
\* The client dispatcher with services that fail
\* =====================================================================
\* thread c has panicked
Crashed(c) == tpc[c] \in {"panic_connect", "panic_write", "panic_read", "panic_parse"}

\* C13: the pool's mutex is held only within a check or a pop, so it is free
\* whenever a thread stands at network I/O, blocked or not, and it is never
\* poisoned by a thread that panics on its connection; hence the threads
\* whose service works drain the pool whatever becomes of the others: the
\* pool ends empty unless every thread of the working service has panicked.
C13_Independent ==
    /\ [](frames_lock = Unlocked)
    /\ <>(frames = <<>> \/ \A c \in OnFirst : Crashed(c))

\* a thread has panicked with the frame it popped, its image never written,
\* and another thread has drained the pool and returned
C13_Witness ==
    \E c, d \in Conns :
        /\ c # d
        /\ tpc[d] = "panic_read" /\ frame[d] # NoFrame /\ writes[frame[d]] = 0
        /\ tpc[c] = "done" /\ frame[c] # NoFrame /\ writes[frame[c]] = 1
        /\ frames = <<>>

\* =====================================================================
\* The <frames> argument
\* =====================================================================
\* the frames an item stands for
ItemSet(it) == IF Len(it) = 1 THEN {it[1]} ELSE {n \in it[1]..it[2] : TRUE}

\* "7,1..3,5,2..2"
ExampleDescriptor ==
    <<"7", ",", "1", ".", ".", "3", ",", "5", ",", "2", ".", ".", "2">>

\* C14 as claimed: the sequence parsed of a valid argument is sorted
\* ascending.
C14_SortedAscending ==
    cmdpc = "spawn" => \A i, j \in 1..Len(frames) : i < j => frames[i] < frames[j]

\* C14 as the code has it: a valid argument never panics the parser; the
\* sequence parsed of it is sorted strictly descending (sorted, deduplicated,
\* then reversed), so it has no duplicates, and its elements are exactly the
\* union of the singletons and inclusive ranges given.
C14_ParsedSet ==
    /\ cmdpc # "panic_parse"
    /\ cmdpc = "spawn" =>
           /\ \A i, j \in 1..Len(frames) : i < j => frames[i] > frames[j]
           /\ Range(frames) = UNION {ItemSet(given[k]) : k \in 1..Len(given)}
    /\ ParseList(ExampleDescriptor) = ExampleList

\* "1..2,9..10" is parsed: a range next to a range of two-digit numbers
C14_Witness ==
    /\ cmdpc = "spawn"
    /\ given = <<<<1, 2>>, <<9, 10>>>>
    /\ frames = <<10, 9, 2, 1>>

\* =====================================================================
\* Framing
\* =====================================================================
\* C15: for every payload of at most 65535 bytes, read_header on a stream
\* that carries to_header(payload) returns the very payload and leaves on
\* the stream exactly what was written after the frame: it consumes the two
\* bytes of the little-endian length and the payload, no more.
C15_RoundTrip ==
    /\ fpc = "panic_len" <=> (fpc \notin {"write", "none"} /\ ~FitsU16(content))
    /\ fpc # "read_err"
    /\ fpc = "read" =>
           /\ Len(stream) = 2 + Len(content) + Len(trailing)
           /\ SubSeq(stream, 1, 2) = <<Len(content) % 256, Len(content) \div 256>>
    /\ fpc = "done" =>
           /\ header = content
           /\ stream = trailing

\* a payload of 257 bytes, whose length takes both bytes of the prefix, has
\* been read back and two bytes are left unread
C15_Witness ==
    /\ fpc = "done"
    /\ Len(header) = 257
    /\ Len(stream) = 2

\* =====================================================================
\* Sessions beside the dispatcher
\* =====================================================================
\* handle_client of c has an Upload or a Query to handle
HasUploadOrQuery(c) ==
    /\ hpc[c] = "read"
    /\ c2s[c] # <<>>
    /\ Head(c2s[c]).type \in {"upload", "query"}

\* the state part of C16: the handler can take its step whatever the lock,
\* the dispatcher, the backend and the other sessions are at
C16_CanStep ==
    \A c \in Conns :
        /\ HasUploadOrQuery(c) =>
               ENABLED (HandleQuery(c) \/ \E opened \in BOOLEAN : HandleUpload(c, opened))
        /\ hpc[c] = "write_file" =>
               ENABLED (\E n \in 0..NumClients : UploadWrite(c, n))

\* the step part of C16: handling an Upload or a Query touches neither the
\* lock, nor the requesters, nor the dispatcher, nor the backend's streams
C16_Apart ==
    \A c \in Conns :
        ((HasUploadOrQuery(c) /\ Len(c2s'[c]) < Len(c2s[c]))
             \/ (hpc[c] = "write_file" /\ hpc'[c] # "write_file"))
            => /\ mutex' = mutex
               /\ render_requesters' = render_requesters
               /\ wpc' = wpc
               /\ toBrpy' = toBrpy
               /\ fromBrpy' = fromBrpy

\* C16: handling an Upload or a Query never takes or waits for the lock of
\* render_requesters and never waits for the backend: its step can be taken
\* in every state of the dispatcher and of the other sessions (the lock held
\* or poisoned, a render with the backend, the dispatcher panicked) and it
\* leaves lock, requesters, dispatcher and backend streams as they are.
C16_Parallel == []C16_CanStep /\ [][C16_Apart]_vars

\* a session that had a Query answered is saving an upload while the
\* dispatcher holds the lock and waits for the frame request of another
C16_Witness ==
    \E c, d \in Conns :
        /\ c # d
        /\ served[c] >= 1
        /\ hpc[c] = "write_file"
        /\ mutex[ip[c]] = "worker"
        /\ wpc[ip[c]] = "frame_req"
        /\ AtSlot(ip[c]) = d
        /\ c2s[d] = <<>>

\* =====================================================================
\* The dispatcher of the worker service
\* =====================================================================
\* session c is registered, connected, and has not been sent an Accept yet
Awaiting(c) ==
    /\ hpc[c] \in {"notify", "returned"}
    /\ c \in Registered(ip[c])
    /\ cstate[c] = "open"
    /\ \A k \in 1..Len(s2c[c]) : s2c[c][k].type # "accept"

\* C17 as claimed: a session that has registered is eventually sent an
\* Accept when the accepted clients send their frame requests; so no session
\* still waiting for its Accept is ever left with a dispatcher that has
\* stopped over the well-formed frame request of another session.
C17_AcceptEventually ==
    \A c \in Conns : Awaiting(c) => wpc[ip[c]] # "panic_dir"

\* the state part of C18
C18_Valid ==
    /\ \A s \in Services :
           LET reqs == render_requesters[s]
           IN  /\ Len(reqs) >= 1
               /\ slot[s] \in 0..(Len(reqs) - 1)
               /\ \A i, j \in 1..Len(reqs) :
                      (i # j /\ reqs[i] = reqs[j]) => reqs[i] = None
    /\ \A c \in Conns :
           (hpc[c] \in {"notify", "returned"} /\ cstate[c] = "open") =>
               Cardinality({k \in 1..Len(render_requesters[ip[c]]) :
                               render_requesters[ip[c]][k] = c}) = 1

\* the step part of C18
C18_Kept ==
    /\ \A s \in Services :
           LET reqs == render_requesters[s]
               after == render_requesters'[s]
           IN  /\ Len(after) >= Len(reqs)
               /\ \A k \in 1..Len(reqs) :
                      reqs[k] # None => after[k] \in {reqs[k], None}
    /\ \A c \in Conns :
           (hpc[c] = "register" /\ hpc'[c] = "notify") =>
               LET reqs == render_requesters[ip[c]]
                   after == render_requesters'[ip[c]]
               IN  \E k \in 1..Len(after) :
                       /\ after[k] = c
                       /\ k <= Len(reqs) => reqs[k] = None
                       /\ \A j \in 1..Len(reqs) : j < k => reqs[j] # None
                       /\ \A j \in 1..Len(reqs) : j # k => after[j] = reqs[j]
                       /\ Len(after) = (IF k <= Len(reqs) THEN Len(reqs) ELSE Len(reqs) + 1)

Between(log, i, j, d) == {k \in (i + 1)..(j - 1) : log[k].to = d}

\* the state part of C19: of any two consecutive Accepts to one requester,
\* every other requester registered all the while got exactly one between
C19_OnceEach ==
    \A s \in Services :
        LET log == accepted[s]
        IN  \A i, j \in 1..Len(log) :
                (i < j /\ log[i].to = log[j].to /\ Between(log, i, j, log[i].to) = {})
                    => \A d \in Conns \ {log[i].to} :
                           (\A k \in i..j : d \in log[k].reg)
                               => Cardinality(Between(log, i, j, d)) = 1

\* how far slot k lies after `from`, going round a vector of n slots
Ahead(k, from, n) == (k - from - 1 + n) % n

\* the step part of C19: the requester accepted is the first one met going
\* round from the slot after the one served last
C19_NextInTurn ==
    \A s \in Services :
        (wpc[s] = "start" /\ wpc'[s] = "frame_req") =>
            LET reqs == render_requesters[s]
                n == Len(reqs)
            IN  /\ reqs[slot'[s] + 1] # None
                /\ \A k \in 0..(n - 1) :
                       Ahead(k, slot[s], n) < Ahead(slot'[s], slot[s], n)
                           => reqs[k + 1] = None

\* C19: worker_brpy serves the requesters round-robin: each scan goes round
\* the slots from the one after the slot served last and accepts the first
\* requester it meets, so between two consecutive Accepts to one requester
\* every other requester that stayed registered all the while is sent
\* exactly one Accept.
C19_RoundRobin == []C19_OnceEach /\ [][C19_NextInTurn]_vars

\* a requester has been accepted a second time, with two others registered
\* all the while and accepted in between
C19_Witness ==
    \E s \in Services :
        LET log == accepted[s]
        IN  \E i, j \in 1..Len(log) :
                /\ i < j
                /\ log[i].to = log[j].to
                /\ Between(log, i, j, log[i].to) = {}
                /\ Cardinality({d \in Conns \ {log[i].to} :
                                   \A k \in i..j : d \in log[k].reg}) = 2

\* the last message written to connection c in this step, if it is a
\* frame request
SentFrameRequest(c) ==
    /\ Len(c2s'[c]) > Len(c2s[c])
    /\ c2s'[c][Len(c2s'[c])].type = "framereq"

\* the client part of C20: render() writes a frame request only in the step
\* that pops a frame, which it reaches only by reading an Accept; it leaves
\* that step with exactly one frame request written, or, the pool empty,
\* with the connection closed and nothing written
C20_Handshake ==
    \A c \in Conns :
        /\ SentFrameRequest(c) =>
               /\ tpc[c] = "pop" /\ tpc'[c] = "read_image"
               /\ frames # <<>>
        /\ (tpc[c] # "pop" /\ tpc'[c] = "pop") =>
               /\ tpc[c] = "read_accept"
               /\ s2c[c] # <<>>
               /\ Head(s2c[c]).type = "accept"
               /\ s2c'[c] = Tail(s2c[c])
        /\ (tpc[c] = "pop" /\ tpc'[c] # "pop") =>
               IF frames = <<>>
               THEN /\ tpc'[c] = "done"
                    /\ cstate'[c] = "closed"
                    /\ c2s'[c] = c2s[c]
               ELSE /\ tpc'[c] = "read_image"
                    /\ c2s'[c] = Append(c2s[c],
                                     FrameReq(RenderId, frames[Len(frames)]))

\* the step of worker_brpy of s frees its slot, writes nothing to the
\* backend and is back at the scan with the lock free, where the scan finds
\* a requester whenever one is left
SlotFreed(s) ==
    /\ render_requesters'[s] =
           [render_requesters[s] EXCEPT ![slot[s] + 1] = None]
    /\ toBrpy'[s] = toBrpy[s]
    /\ slot'[s] = slot[s]
    /\ wpc'[s] = "start"
    /\ mutex'[s] = "free"
    /\ (\E k \in 1..Len(render_requesters'[s]) : render_requesters'[s][k] # None)
           => Scan(render_requesters'[s], slot'[s], slot'[s]) # NotFound

\* the dispatcher part of C20: a failed read of the frame request frees the
\* slot; after the write of the render response the slot is either kept or,
\* the requester gone, freed; an Accept and a backend render are only ever
\* for a requester that holds a slot
C20_Cleanup ==
    \A s \in Services :
        /\ (/\ wpc[s] = "frame_req" /\ wpc'[s] # "frame_req"
            /\ c2s[AtSlot(s)] = <<>> /\ cstate[AtSlot(s)] = "closed")
               => SlotFreed(s)
        /\ (wpc[s] = "send" /\ wpc'[s] # "send" /\ AtSlot(s) # None) =>
               \/ /\ render_requesters'[s] = render_requesters[s]
                  /\ wpc'[s] = "start"
                  /\ s2c'[AtSlot(s)] = Deliver(AtSlot(s), response[s])
               \/ /\ SlotFreed(s)
                  /\ cstate[AtSlot(s)] = "closed"
                  /\ s2c' = s2c
        /\ Len(accepted'[s]) > Len(accepted[s]) =>
               accepted'[s][Len(accepted'[s])].to \in Registered(s)
        /\ (/\ Len(toBrpy'[s]) > Len(toBrpy[s])
            /\ toBrpy'[s][Len(toBrpy'[s])].type = "render")
               => /\ wpc[s] = "render"
                  /\ AtSlot(s) \in Registered(s)

\* C20: a render() thread writes exactly one frame request for an Accept it
\* has read and none without one; a thread that was accepted and finds the
\* pool empty closes the connection with no frame request written; and when
\* worker_brpy fails to read a requester's frame request or to write its
\* render response it sets the slot to None, writes no render request to
\* the backend for it, and is back at the scan for the requesters left.
C20_AcceptAndCleanup == [][C20_Handshake /\ C20_Cleanup]_vars

\* a thread that was accepted found the pool empty and closed, its slot
\* was freed, and the dispatcher went on to accept another requester
C20_Witness ==
    \E s \in Services :
        LET log == accepted[s]
        IN  \E i, j \in 1..Len(log) :
                /\ i < j
                /\ tpc[log[i].to] = "done"
                /\ log[i].to \notin log[j].reg
                /\ log[j].to # log[i].to
====
